---- MODULE Spec2Model ----
(***************************************************************************)
(* Model of the Snake game component, src/components/SnakeGame.tsx (the    *)
(* second variant in src/unnamed/part_000 has the same logic and differs   *)
(* only in rendering).                                                     *)
(*                                                                         *)
(* One action per event handler.  An action is the handler together with   *)
(* the React re-render and the effects that follow it: every setState of   *)
(* the handler is applied, then the game-loop effect (lines 70-128) is     *)
(* cleaned up and re-run when one of its dependencies changed.  Handlers   *)
(* run one at a time on the browser's event loop, so the closures of the   *)
(* interval callback and of the key listener see the latest state.         *)
(*                                                                         *)
(* The board of the source is 20 x 20.  The model checks a smaller board,  *)
(* GRID_SIZE, with the initial snake and the initial food placed as the    *)
(* source places them relative to the board (see INITIAL_SNAKE).           *)
(***************************************************************************)
EXTENDS Integers, Sequences, FiniteSets, TLC

\* ------------------------------------------------------------------ bounds
\* Side of the board (20 in the source, line 16).
GRID_SIZE == 5
\* Number of food items eaten per game that the model follows.
MaxFood == 1

\* --------------------------------------------------------- program constants
REWARD == 10
minSwipeDistance == 30

\* null for a direction or a key; a nullable object (a stored string, a touch
\* position) is the empty sequence when null and << v >> when it holds v.
NULL == "null"
None == << >>
Just(v) == << v >>

Direction == {"UP", "DOWN", "LEFT", "RIGHT"}
INITIAL_DIRECTION == "UP"

Pos(px, py) == [x |-> px, y |-> py]

\* Lines 18-22: {10,10},{10,11},{10,12} on the board of side 20, that is the
\* centre cell and the two cells below it.
INITIAL_SNAKE ==
    << Pos(GRID_SIZE \div 2, GRID_SIZE \div 2),
       Pos(GRID_SIZE \div 2, GRID_SIZE \div 2 + 1),
       Pos(GRID_SIZE \div 2, GRID_SIZE \div 2 + 2) >>

\* Line 29: {5,5} on the board of side 20.
INITIAL_FOOD == Pos(GRID_SIZE \div 4, GRID_SIZE \div 4)

\* Lines 49-52: the cells the two Math.random() draws produce.  The model
\* follows the draws that land on two columns and two rows near the start
\* (the initial head's cell among them, so that a draw can be rejected).
RandomCoords == { GRID_SIZE \div 4, GRID_SIZE \div 2 }
RandomCells == { Pos(px, py) : px \in RandomCoords, py \in RandomCoords }

\* Every cell of the board.
Cells == { Pos(px, py) : px \in 0 .. GRID_SIZE - 1, py \in 0 .. GRID_SIZE - 1 }

\* A game that fills the board of side 5: the cells the head enters, in
\* order, from the initial snake.  The head eats the initial food on its
\* second step, moves on without eating once, and eats on every step from
\* the fourth to the last, which takes the one cell left.
Route ==
    << Pos(1, 2), Pos(1, 1), Pos(1, 0), Pos(0, 0), Pos(0, 1), Pos(0, 2),
       Pos(0, 3), Pos(0, 4), Pos(1, 4), Pos(1, 3), Pos(2, 3), Pos(2, 4),
       Pos(3, 4), Pos(4, 4), Pos(4, 3), Pos(3, 3), Pos(3, 2), Pos(4, 2),
       Pos(4, 1), Pos(3, 1), Pos(2, 1), Pos(2, 0), Pos(3, 0), Pos(4, 0) >>

\* The cell the route enters after cell c, or c itself at its end.
RouteAfter(c) ==
    LET full == << INITIAL_SNAKE[1] >> \o Route
        at == { i \in 1 .. Len(full) - 1 : full[i] = c }
    IN  IF at = {} THEN c ELSE full[(CHOOSE i \in at : TRUE) + 1]

\* e.key values: the arrows, a letter key, space, Enter and one other key.
Keys == { "ArrowUp", "ArrowDown", "ArrowLeft", "ArrowRight", "w", " ", "Enter", "x" }

\* Touch coordinates: one start point and end points around it, at distances
\* of 0 and of minSwipeDistance along each axis.
TouchOrigin == Pos(100, 100)
Deltas == { -minSwipeDistance, 0, minSwipeDistance }
TouchEnds == { Pos(TouchOrigin.x + dx, TouchOrigin.y + dy) : dx \in Deltas, dy \in Deltas }

\* The vectors of a gesture, from touch start to touch end: along each axis
\* nothing, or one less than, exactly, or one more than minSwipeDistance, in
\* either sense.
GestureDeltas ==
    { 0 } \cup { sign * (minSwipeDistance + off) : sign \in { -1, 1 }, off \in { -1, 0, 1 } }
Gestures == { << dx, dy >> : dx \in GestureDeltas, dy \in GestureDeltas }

\* localStorage['snakeHighScore'] at mount: absent, or a score the game wrote
\* in an earlier session.
InitialStorage == { None, Just(<< 1, 0 >>), Just(<< 2, 0 >>) }

VARIABLES
    snake,          \* useState snake: sequence of cells, head first
    food,           \* useState food
    direction,      \* useState direction (Facing Direction)
    nextDirection,  \* useState nextDirection (Pending Direction)
    gameState,      \* useState gameState: idle | playing | paused | gameOver
    score,          \* useState score
    highScore,      \* useState highScore
    storage,        \* localStorage['snakeHighScore']: Just(digit string) or None
    timer,          \* gameLoopRef: TRUE while an interval is set and not cleared
    loaded,         \* history: the high score mirrored from storage at mount
    maxScore,       \* history: greatest score seen so far
    last,           \* history: the event handled last (kept under SpecH only)
    elapsed,        \* the interval's progress through its period (SpecT only)
    mounted,        \* the component is mounted: no uncaught error unmounted it
    heard,          \* history: the direction asked for since the last step
                    \* (kept under SpecW only)
    gesture,        \* the vector of the one gesture the player makes on the
                    \* canvas, None when the player makes them all (SpecG only)
    lucky           \* Math.random lands the food on the player's route
                    \* (SpecR only)

vars == << snake, food, direction, nextDirection, gameState, score, highScore,
           storage, timer, loaded, maxScore, last, elapsed, mounted, heard,
           gesture, lucky >>

\* ------------------------------------------------------------ pure functions

\* Number.prototype.toString for a non-negative integer: its decimal digits.
RECURSIVE toString(_)
toString(n) == IF n < 10 THEN << n >> ELSE Append(toString(n \div 10), n % 10)

\* parseInt(s, 10) for a string of decimal digits.
RECURSIVE parseInt(_)
parseInt(s) ==
    IF Len(s) = 0 THEN 0
    ELSE 10 * parseInt(SubSeq(s, 1, Len(s) - 1)) + s[Len(s)]

Abs(n) == IF n < 0 THEN -n ELSE n

Max(a, b) == IF a > b THEN a ELSE b

\* Array.prototype.some with the cell-equality callback (lines 54, 66).
Some(cells, c) == \E i \in 1 .. Len(cells) : cells[i].x = c.x /\ cells[i].y = c.y

\* Lines 179-184.
opposites(d) ==
    CASE d = "UP" -> "DOWN"
      [] d = "DOWN" -> "UP"
      [] d = "LEFT" -> "RIGHT"
      [] d = "RIGHT" -> "LEFT"

\* generateFood without the loop: the first draw is returned.
generateFood_FirstDraw(currentSnake) == RandomCells

\* Lines 49-52: the cells the draws of one call of generateFood land on.
\* In a lucky game the food lands where the route of the head eats next: on
\* the cell after the next when the snake has four cells, on the next cell
\* afterwards.  Otherwise the draws are those of RandomCells, with the
\* corner cell for the snake that lies on all of RandomCells.
Draws(currentSnake) ==
    IF lucky
    THEN (IF RouteAfter(currentSnake[1]) = currentSnake[1] THEN Cells
          ELSE IF Len(currentSnake) = Len(INITIAL_SNAKE) + 1
          THEN { RouteAfter(RouteAfter(currentSnake[1])) }
          ELSE { RouteAfter(currentSnake[1]) })
    ELSE IF \A c \in RandomCells : Some(currentSnake, c)
    THEN RandomCells \cup { Pos(0, 0) }
    ELSE RandomCells

\* Lines 46-57: the values the rejection loop can return for currentSnake.
\* The loop draws until a draw is off the snake: with no such cell it never
\* returns, and the step that called it has no next state.
generateFood(currentSnake) == { c \in Draws(currentSnake) : ~Some(currentSnake, c) }

\* checkCollision with the cell the tail is about to leave left out.
checkCollision_SkipsTail(head, snakeBody) ==
    \/ head.x < 0 \/ head.x >= GRID_SIZE \/ head.y < 0 \/ head.y >= GRID_SIZE
    \/ Some(SubSeq(snakeBody, 1, Len(snakeBody) - 1), head)

\* checkCollision without the test of line 66: only the walls stop the
\* snake.
checkCollision_WallsOnly(head, snakeBody) ==
    head.x < 0 \/ head.x >= GRID_SIZE \/ head.y < 0 \/ head.y >= GRID_SIZE

\* Lines 60-67.
checkCollision(head, snakeBody) ==
    \/ head.x < 0 \/ head.x >= GRID_SIZE \/ head.y < 0 \/ head.y >= GRID_SIZE
    \/ Some(snakeBody, head)

\* MoveHead with the y axis pointing up: UP adds one to y, DOWN takes one.
MoveHead_YAxisUp(head, d) ==
    CASE d = "UP" -> Pos(head.x, head.y + 1)
      [] d = "DOWN" -> Pos(head.x, head.y - 1)
      [] d = "LEFT" -> Pos(head.x - 1, head.y)
      [] d = "RIGHT" -> Pos(head.x + 1, head.y)

\* MoveHead on a board whose edges wrap round.
MoveHead_Wraps(head, d) ==
    CASE d = "UP" -> Pos(head.x, (head.y - 1) % GRID_SIZE)
      [] d = "DOWN" -> Pos(head.x, (head.y + 1) % GRID_SIZE)
      [] d = "LEFT" -> Pos((head.x - 1) % GRID_SIZE, head.y)
      [] d = "RIGHT" -> Pos((head.x + 1) % GRID_SIZE, head.y)

\* Lines 75-91: the head moved one cell in direction d.
MoveHead(head, d) ==
    CASE d = "UP" -> Pos(head.x, head.y - 1)
      [] d = "DOWN" -> Pos(head.x, head.y + 1)
      [] d = "LEFT" -> Pos(head.x - 1, head.y)
      [] d = "RIGHT" -> Pos(head.x + 1, head.y)

\* Lines 153-174: the direction a key stands for, or NULL.
KeyDirection(key) ==
    CASE key \in {"ArrowUp", "w", "W"} -> "UP"
      [] key \in {"ArrowDown", "s", "S"} -> "DOWN"
      [] key \in {"ArrowLeft", "a", "A"} -> "LEFT"
      [] key \in {"ArrowRight", "d", "D"} -> "RIGHT"
      [] OTHER -> NULL

\* Line 302: the gesture is a tap.
IsTap(deltaX, deltaY) == Abs(deltaX) < minSwipeDistance /\ Abs(deltaY) < minSwipeDistance

\* SwipeDirection with >= on line 315: a tie goes to the horizontal axis.
SwipeDirection_TieHorizontal(deltaX, deltaY) ==
    IF Abs(deltaX) >= Abs(deltaY)
    THEN (IF deltaX > 0 THEN "RIGHT" ELSE "LEFT")
    ELSE (IF deltaY > 0 THEN "DOWN" ELSE "UP")

\* Lines 315-323: the direction of a swipe.
SwipeDirection(deltaX, deltaY) ==
    IF Abs(deltaX) > Abs(deltaY)
    THEN (IF deltaX > 0 THEN "RIGHT" ELSE "LEFT")
    ELSE (IF deltaY > 0 THEN "DOWN" ELSE "UP")

\* ------------------------------------------------------------------- effects

\* The game-loop effect without its cleanup: an interval, once set, stays.
GameLoopEffect_NoCleanup == timer' = (timer \/ gameState' = "playing")

\* Lines 70-73, 123-128: when a dependency of the game-loop effect changed in
\* this render, the cleanup clears the interval and the effect sets a new one
\* only if gameState is 'playing'.
GameLoopEffect ==
    timer' = IF << gameState', nextDirection', food', highScore' >>
                  # << gameState, nextDirection, food, highScore >>
             THEN gameState' = "playing"
             ELSE timer

\* The history variables.  last names the branch the last handler took:
\* "move", "eat", "collide" (a tick); "start", "toggle", "reset", "turn" (an
\* accepted direction), "reject" (a direction refused by the 180-degree
\* filter), "ignore" (an input the handler returns on without a state change).
\* It is recorded only when the behaviour started with recording on (InitH).
NoEvent == "off"

History(branch) ==
    /\ last' = IF last = NoEvent THEN last ELSE branch
    /\ maxScore' = Max(maxScore, score')
    /\ UNCHANGED loaded

\* Lines 123-128 against the clock.  setInterval(_, GAME_SPEED) calls back
\* one period after it was set and one period after each call; the cleanup
\* of the effect clears it and the effect sets a new one, which starts its
\* period from the beginning.  elapsed is "fresh" when the period has just
\* begun and "running" once part of it has gone by; a step ends a running
\* period.  With Untimed the model does not follow the clock and a set
\* interval may call back at any moment.
Untimed == "untimed"

IntervalClock(fired) ==
    elapsed' = IF elapsed = Untimed THEN Untimed
               ELSE IF fired \/ << gameState', nextDirection', food', highScore' >>
                                # << gameState, nextDirection, food, highScore >>
               THEN "fresh"
               ELSE elapsed

\* The opposite of direction d.
Reverse(d) ==
    IF d = "UP" THEN "DOWN" ELSE IF d = "DOWN" THEN "UP"
    ELSE IF d = "LEFT" THEN "RIGHT" ELSE "LEFT"

\* heard is the last direction the player asked for while playing, since
\* the last step, that was not the reverse of the facing direction; "none"
\* after a step, a start or a reset.  input is the direction the handled
\* input stands for, NULL for any other input.  It is recorded only when the
\* behaviour started with recording on (InitW).
Unheard == "off"

Hearing(fired, input) ==
    heard' = IF heard = Unheard THEN Unheard
             ELSE IF fired \/ gameState = "idle" \/ gameState' = "idle" THEN "none"
             ELSE IF gameState = "playing" /\ input # NULL
                     /\ input # Reverse(direction)
             THEN input
             ELSE heard

\* What every handler and every step leaves alone or keeps up to date.
Frame(fired, input) ==
    /\ IntervalClock(fired)
    /\ Hearing(fired, input)
    /\ UNCHANGED << mounted, gesture, lucky >>

\* The branch of the 180-degree filter (lines 185, 332, 356).
TurnBranch(newDirection) ==
    IF opposites(direction) # newDirection THEN "turn" ELSE "reject"

\* ------------------------------------------------------------- state changes

\* Lines 268-270.
startGame == gameState' = "playing"

\* togglePause that only pauses: the second press does not resume.
togglePause_OnlyPauses == gameState' = "paused"

\* Lines 272-274.
togglePause == gameState' = IF gameState = "playing" THEN "paused" ELSE "playing"

\* resetGame without line 278: the pending direction survives the reset.
resetGame_KeepsPending ==
    /\ snake' = INITIAL_SNAKE
    /\ direction' = INITIAL_DIRECTION
    /\ UNCHANGED nextDirection
    /\ food' \in generateFood(INITIAL_SNAKE)
    /\ score' = 0
    /\ gameState' = "idle"

\* resetGame without line 279: the food of the finished game stays.
resetGame_KeepsFood ==
    /\ snake' = INITIAL_SNAKE
    /\ direction' = INITIAL_DIRECTION
    /\ nextDirection' = INITIAL_DIRECTION
    /\ UNCHANGED food
    /\ score' = 0
    /\ gameState' = "idle"

\* resetGame without line 280: the score of the finished game stays.
resetGame_KeepsScore ==
    /\ snake' = INITIAL_SNAKE
    /\ direction' = INITIAL_DIRECTION
    /\ nextDirection' = INITIAL_DIRECTION
    /\ food' \in generateFood(INITIAL_SNAKE)
    /\ UNCHANGED score
    /\ gameState' = "idle"

\* Lines 276-283.
resetGame ==
    /\ snake' = INITIAL_SNAKE
    /\ direction' = INITIAL_DIRECTION
    /\ nextDirection' = INITIAL_DIRECTION
    /\ food' \in generateFood(INITIAL_SNAKE)
    /\ score' = 0
    /\ gameState' = "idle"

\* The direction taken without the 180-degree filter.
TurnTo_NoFilter(newDirection) == nextDirection' = newDirection

\* Lines 185-187, 332-334, 356-358: the 180-degree filter.
TurnTo(newDirection) ==
    nextDirection' = IF opposites(direction) # newDirection
                     THEN newDirection
                     ELSE nextDirection

\* ------------------------------------------------------------------- actions

\* movedSnake without the pop of line 116: the snake grows on every move.
movedSnake_NeverPops(head, prevSnake, ate) == << head >> \o prevSnake

\* Lines 102-119: the snake the updater returns after a move onto head that
\* did not collide: the head is prepended and, unless food was eaten, the
\* last cell is popped.
movedSnake(head, prevSnake, ate) ==
    LET newSnake == << head >> \o prevSnake
    IN  IF ate THEN newSnake ELSE SubSeq(newSnake, 1, Len(newSnake) - 1)

\* Lines 108-111 with every new score stored as the high score.
recordAfter_Always(newScore, best) == newScore

\* Line 108 with the comparison turned round.
recordAfter_ComparisonReversed(newScore, best) ==
    IF newScore < best THEN newScore ELSE best

\* Lines 108-111: the high score after the score became newScore.
recordAfter(newScore, best) == IF newScore > best THEN newScore ELSE best

\* The foods of one game the model follows: MaxFood, or as many as the
\* board has cells in a lucky game.
FoodCap == IF lucky THEN GRID_SIZE * GRID_SIZE ELSE MaxFood

\* Lines 108-111 with the write moved out of the test: every new score is
\* stored.
storedAfter_Always(newScore, best, stored) == Just(toString(newScore))

\* Lines 108-111: localStorage['snakeHighScore'] after the score became
\* newScore; setItem runs only inside the test of line 108.
storedAfter(newScore, best, stored) ==
    IF newScore > best THEN Just(toString(newScore)) ELSE stored

\* setDirection placed after the collision test: a colliding step keeps
\* the direction.
facingAfter_KeptOnCollision(pending, facing, collided) ==
    IF collided THEN facing ELSE pending

\* The step without line 94: the pending direction is never committed.
facingAfter_NeverCommitted(pending, facing, collided) == facing

\* Line 94: setDirection(nextDirection), before the collision test.
facingAfter(pending, facing, collided) == pending

\* Lines 73-121: one firing of the interval, the setSnake updater.
Tick ==
    /\ mounted
    /\ timer
    /\ elapsed # "fresh"
    /\ LET head == MoveHead(snake[1], nextDirection)
           ate == head.x = food.x /\ head.y = food.y
           newScore == score + REWARD
       IN  /\ direction' = facingAfter(nextDirection, direction,
                                        checkCollision(head, snake))
           /\ IF checkCollision(head, snake)
              THEN /\ gameState' = "gameOver"
                   /\ UNCHANGED << snake, food, score, highScore, storage >>
              ELSE /\ snake' = movedSnake(head, snake, ate)
                   /\ UNCHANGED gameState
                   /\ IF ate
                      THEN /\ score < FoodCap * REWARD
                           /\ score' = newScore
                           /\ highScore' = recordAfter(newScore, highScore)
                           /\ storage' = storedAfter(newScore, highScore, storage)
                           /\ food' \in generateFood(snake')
                      ELSE UNCHANGED << food, score, highScore, storage >>
    /\ UNCHANGED nextDirection
    /\ GameLoopEffect
    /\ Frame(TRUE, NULL)
    /\ History(IF gameState' = "gameOver" THEN "collide"
               ELSE IF score' # score THEN "eat" ELSE "move")

\* Lines 106-113 with a localStorage whose setItem throws (storage full or
\* denied).  Nothing catches the exception: it leaves the setScore updater,
\* the render that was to commit the step fails and React, having no error
\* boundary in the tree, unmounts the component; the unmount runs the
\* cleanup of the game-loop effect.  The state of the step is never
\* committed.
TickThrows ==
    /\ mounted
    /\ timer
    /\ elapsed # "fresh"
    /\ LET head == MoveHead(snake[1], nextDirection)
       IN  /\ ~checkCollision(head, snake)
           /\ head.x = food.x /\ head.y = food.y
           /\ score + REWARD > highScore
    /\ mounted' = FALSE
    /\ timer' = FALSE
    /\ last' = IF last = NoEvent THEN last ELSE "throw"
    /\ elapsed' = IF elapsed = Untimed THEN Untimed ELSE "fresh"
    /\ UNCHANGED << snake, food, direction, nextDirection, gameState, score,
                    highScore, storage, loaded, maxScore, heard, gesture,
                    lucky >>

\* handleKeyPress without the 'gameOver' branch of lines 140-145: after a
\* collision the keys act as they do in play.
handleKeyPress_NoGameOverBranch(key) ==
    /\ mounted
    /\ IF gameState = "idle"
       THEN /\ IF key \in {"ArrowUp", "ArrowDown", "ArrowLeft", "ArrowRight", " "}
               THEN startGame
               ELSE UNCHANGED gameState
            /\ UNCHANGED << snake, food, direction, nextDirection, score >>
       ELSE IF key = " "
       THEN /\ togglePause
            /\ UNCHANGED << snake, food, direction, nextDirection, score >>
       ELSE /\ IF KeyDirection(key) # NULL
               THEN TurnTo(KeyDirection(key))
               ELSE UNCHANGED nextDirection
            /\ UNCHANGED << snake, food, direction, score, gameState >>
    /\ UNCHANGED << highScore, storage >>
    /\ GameLoopEffect
    /\ Frame(FALSE, KeyDirection(key))
    /\ History(IF gameState = "idle"
               THEN (IF gameState' = "playing" THEN "start" ELSE "ignore")
               ELSE IF key = " " THEN "toggle"
               ELSE IF KeyDirection(key) # NULL THEN TurnBranch(KeyDirection(key))
               ELSE "ignore")

\* Lines 132-189: the keydown listener.
handleKeyPress(key) ==
    /\ mounted
    /\ IF gameState = "idle"
       THEN /\ IF key \in {"ArrowUp", "ArrowDown", "ArrowLeft", "ArrowRight", " "}
               THEN startGame
               ELSE UNCHANGED gameState
            /\ UNCHANGED << snake, food, direction, nextDirection, score >>
       ELSE IF gameState = "gameOver"
       THEN IF key = " " \/ key = "Enter"
            THEN resetGame
            ELSE UNCHANGED << snake, food, direction, nextDirection, score, gameState >>
       ELSE IF key = " "
       THEN /\ togglePause
            /\ UNCHANGED << snake, food, direction, nextDirection, score >>
       ELSE /\ IF KeyDirection(key) # NULL
               THEN TurnTo(KeyDirection(key))
               ELSE UNCHANGED nextDirection
            /\ UNCHANGED << snake, food, direction, score, gameState >>
    /\ UNCHANGED << highScore, storage >>
    /\ GameLoopEffect
    /\ Frame(FALSE, KeyDirection(key))
    /\ History(IF gameState = "idle"
               THEN (IF gameState' = "playing" THEN "start" ELSE "ignore")
               ELSE IF gameState = "gameOver"
               THEN (IF key = " " \/ key = "Enter" THEN "reset" ELSE "ignore")
               ELSE IF key = " " THEN "toggle"
               ELSE IF KeyDirection(key) # NULL THEN TurnBranch(KeyDirection(key))
               ELSE "ignore")

KeyDown == \E key \in Keys : handleKeyPress(key)

\* Lines 288-338: one touch gesture on the canvas.  handleTouchStart stores
\* the start position in touchStart, handleTouchEnd reads it and sets it back
\* to null; nothing else reads touchStart, so the gesture is modelled at its
\* touchend, with the stored start position as the parameter touchStart.
handleTouchEnd(touchStart, touch) ==
    /\ mounted
    /\ IF touchStart = None
       THEN UNCHANGED << snake, food, direction, nextDirection, score, gameState >>
       ELSE LET deltaX == touch.x - touchStart[1].x
                deltaY == touch.y - touchStart[1].y
            IN  IF IsTap(deltaX, deltaY)
                THEN IF gameState = "idle"
                     THEN /\ startGame
                          /\ UNCHANGED << snake, food, direction, nextDirection, score >>
                     ELSE IF gameState = "playing" \/ gameState = "paused"
                     THEN /\ togglePause
                          /\ UNCHANGED << snake, food, direction, nextDirection, score >>
                     ELSE resetGame
                ELSE /\ IF gameState = "playing"
                        THEN TurnTo(SwipeDirection(deltaX, deltaY))
                        ELSE UNCHANGED nextDirection
                     /\ UNCHANGED << snake, food, direction, score, gameState >>
    /\ UNCHANGED << highScore, storage >>
    /\ GameLoopEffect
    /\ Frame(FALSE, IF touchStart = None
                     \/ IsTap(touch.x - touchStart[1].x, touch.y - touchStart[1].y)
                    THEN NULL
                    ELSE SwipeDirection(touch.x - touchStart[1].x,
                                        touch.y - touchStart[1].y))
    /\ History(IF touchStart = None THEN "ignore"
               ELSE IF IsTap(touch.x - touchStart[1].x, touch.y - touchStart[1].y)
               THEN (IF gameState = "idle" THEN "start"
                     ELSE IF gameState = "gameOver" THEN "reset" ELSE "toggle")
               ELSE IF gameState = "playing"
               THEN TurnBranch(SwipeDirection(touch.x - touchStart[1].x,
                                              touch.y - touchStart[1].y))
               ELSE "ignore")

Touch == \E touch \in TouchEnds : handleTouchEnd(Just(TouchOrigin), touch)

\* The player's one gesture, made from TouchOrigin.
TouchGesture ==
    /\ gesture # None
    /\ handleTouchEnd(Just(TouchOrigin),
                      Pos(TouchOrigin.x + gesture[1], TouchOrigin.y + gesture[2]))

\* A touchend on the canvas with no touch start stored (line 294).
TouchEndOnly == \E touch \in {TouchOrigin} : handleTouchEnd(None, touch)

\* handleDirectionClick with the idle test written as "not playing": a press
\* in any other phase starts the game.
handleDirectionClick_StartsWhenNotPlaying(newDirection) ==
    /\ mounted
    /\ IF gameState # "playing"
       THEN /\ startGame
            /\ nextDirection' = newDirection
       ELSE /\ TurnTo(newDirection)
            /\ UNCHANGED gameState
    /\ UNCHANGED << snake, food, direction, score, highScore, storage >>
    /\ GameLoopEffect
    /\ Frame(FALSE, newDirection)
    /\ History(IF gameState # "playing" THEN "start" ELSE TurnBranch(newDirection))

\* Lines 341-359: an on-screen direction button.
handleDirectionClick(newDirection) ==
    /\ mounted
    /\ IF gameState = "idle"
       THEN /\ startGame
            /\ nextDirection' = newDirection
       ELSE IF gameState # "playing"
       THEN UNCHANGED << gameState, nextDirection >>
       ELSE /\ TurnTo(newDirection)
            /\ UNCHANGED gameState
    /\ UNCHANGED << snake, food, direction, score, highScore, storage >>
    /\ GameLoopEffect
    /\ Frame(FALSE, newDirection)
    /\ History(IF gameState = "idle" THEN "start"
               ELSE IF gameState # "playing" THEN "ignore"
               ELSE TurnBranch(newDirection))

DirectionClick == \E d \in Direction : handleDirectionClick(d)

\* Lines 401-406 (JSX): the Start Game button, rendered while idle.
ClickStart ==
    /\ mounted
    /\ gameState = "idle"
    /\ startGame
    /\ UNCHANGED << snake, food, direction, nextDirection, score, highScore, storage >>
    /\ GameLoopEffect
    /\ Frame(FALSE, NULL)
    /\ History("start")

\* Lines 427-432 (JSX): the Play Again button, rendered while gameOver.
ClickPlayAgain ==
    /\ mounted
    /\ gameState = "gameOver"
    /\ resetGame
    /\ UNCHANGED << highScore, storage >>
    /\ GameLoopEffect
    /\ Frame(FALSE, NULL)
    /\ History("reset")

\* A firing of the interval that finds the pending direction pointing along
\* the route.
TickOnRoute ==
    /\ MoveHead(snake[1], nextDirection) = RouteAfter(snake[1])
    /\ Tick

\* Lines 123-124: part of the GAME_SPEED milliseconds goes by with the
\* interval set and not cleared.
Elapse ==
    /\ mounted
    /\ timer
    /\ elapsed = "fresh"
    /\ elapsed' = "running"
    /\ UNCHANGED << snake, food, direction, nextDirection, gameState, score,
                    highScore, storage, timer, loaded, maxScore, last, mounted,
                    heard, gesture, lucky >>

\* Lines 28-43: the state after the first render and the mount effect.
InitState ==
    /\ snake = INITIAL_SNAKE
    /\ food = INITIAL_FOOD
    /\ direction = INITIAL_DIRECTION
    /\ nextDirection = INITIAL_DIRECTION
    /\ gameState = "idle"
    /\ score = 0
    /\ storage \in InitialStorage
    /\ highScore = IF storage # None THEN parseInt(storage[1]) ELSE 0
    /\ timer = FALSE
    /\ loaded = highScore
    /\ maxScore = 0
    /\ mounted = TRUE

\* Lines 28-41 with a localStorage whose getItem throws: the exception
\* leaves the mount effect and React unmounts the component, whose state
\* held the initial values.
MountThrows ==
    /\ snake = INITIAL_SNAKE
    /\ food = INITIAL_FOOD
    /\ direction = INITIAL_DIRECTION
    /\ nextDirection = INITIAL_DIRECTION
    /\ gameState = "idle"
    /\ score = 0
    /\ storage = None
    /\ highScore = 0
    /\ timer = FALSE
    /\ loaded = 0
    /\ maxScore = 0
    /\ mounted = FALSE

Init ==
    InitState /\ last = NoEvent /\ elapsed = Untimed /\ heard = Unheard
    /\ gesture = None /\ lucky = FALSE

InitH ==
    InitState /\ storage = None /\ last = "mount" /\ elapsed = Untimed
    /\ heard = Unheard /\ gesture = None /\ lucky = FALSE

Next ==
    \/ Tick
    \/ KeyDown
    \/ Touch
    \/ TouchEndOnly
    \/ DirectionClick
    \/ ClickStart
    \/ ClickPlayAgain

Spec == Init /\ [][Next]_vars

\* The same program started with no stored high score, with the branch of
\* the last handler recorded.
SpecH == InitH /\ [][Next]_vars

\* The same program against the clock: a step runs only when the period of
\* the interval has run out.
InitT ==
    InitState /\ storage = None /\ last = NoEvent /\ elapsed = "fresh"
    /\ heard = Unheard /\ gesture = None /\ lucky = FALSE

NextT ==
    \/ Elapse
    \/ Tick
    \/ KeyDown
    \/ Touch
    \/ TouchEndOnly
    \/ DirectionClick
    \/ ClickStart
    \/ ClickPlayAgain

SpecT == InitT /\ [][NextT]_vars

\* The same program with a localStorage that may throw on any access.
InitF ==
    /\ (InitState /\ storage = None) \/ MountThrows
    /\ last = "mount" /\ elapsed = Untimed /\ heard = Unheard
    /\ gesture = None /\ lucky = FALSE

NextF ==
    \/ Tick
    \/ TickThrows
    \/ KeyDown
    \/ Touch
    \/ TouchEndOnly
    \/ DirectionClick
    \/ ClickStart
    \/ ClickPlayAgain

SpecF == InitF /\ [][NextF]_vars

\* The same program played on the canvas with one gesture, repeated; the
\* Start Game and Play Again buttons are there for a gesture that is a swipe.
InitG ==
    InitState /\ storage = None /\ last = NoEvent /\ elapsed = Untimed
    /\ heard = Unheard /\ gesture \in Gestures /\ lucky = FALSE

NextG ==
    \/ Tick
    \/ TouchGesture
    \/ ClickStart
    \/ ClickPlayAgain

SpecG == InitG /\ [][NextG]_vars

\* A lucky game of the same program: every food lands on the route of the
\* head, and the interval fires when the player has pointed the snake along
\* the route.
InitR ==
    InitState /\ storage = None /\ last = NoEvent /\ elapsed = Untimed
    /\ heard = Unheard /\ gesture = None /\ lucky = TRUE

NextR ==
    \/ TickOnRoute
    \/ KeyDown
    \/ ClickStart

SpecR == InitR /\ [][NextR]_vars

\* The same program started with no stored high score, with the branch of
\* the last handler and the direction asked for since the last step
\* recorded.
InitW ==
    InitState /\ storage = None /\ last = "mount" /\ elapsed = Untimed
    /\ heard = "none" /\ gesture = None /\ lucky = FALSE

SpecW == InitW /\ [][Next]_vars

\* ==================================================================== claims

\* C1: once gameState is 'gameOver', every step other than a reset (a key,
\* a swipe, a direction button, a tick) leaves snake, food and score as they
\* are and leaves the game in 'gameOver'.
C1_FrozenWhenTerminated ==
    [][ (gameState = "gameOver" /\ last' # "reset")
        => UNCHANGED << snake, food, score, gameState >> ]_vars

\* A non-reset input has been handled while the game was over.
C1_Witness == gameState = "gameOver" /\ last = "ignore"

\* A direction input d from one of the three sources: a key that stands for
\* d, a swipe classified as d, the on-screen button d.
KeyInput(d) == \E key \in Keys : KeyDirection(key) = d /\ handleKeyPress(key)

SwipeInput(d) ==
    \E touch \in TouchEnds :
        /\ ~IsTap(touch.x - TouchOrigin.x, touch.y - TouchOrigin.y)
        /\ SwipeDirection(touch.x - TouchOrigin.x, touch.y - TouchOrigin.y) = d
        /\ handleTouchEnd(Just(TouchOrigin), touch)

ButtonInput(d) == handleDirectionClick(d)

DirectionInput(d) == KeyInput(d) \/ SwipeInput(d) \/ ButtonInput(d)

InGrid(c) == c.x \in 0 .. GRID_SIZE - 1 /\ c.y \in 0 .. GRID_SIZE - 1

OnSnake(c, cells) == \E i \in DOMAIN cells : cells[i] = c

\* C2: while playing, a direction input (key, swipe or button) equal to the
\* reverse of the facing direction leaves the pending direction unchanged,
\* whatever the pending direction is.  (Stated by contraposition: a step that
\* changes the pending direction is not such an input.)
C2_ReversalRejected ==
    [][ nextDirection' # nextDirection
        => ~(gameState = "playing" /\ DirectionInput(Reverse(direction))) ]_vars

\* A reversal has been refused in play while a turn was pending.
C2_Witness ==
    gameState = "playing" /\ last = "reject" /\ nextDirection # direction

\* C3: a step that does not collide adds exactly 10 to the score and one
\* cell to the snake when the new head is on the food, and leaves score and
\* length unchanged otherwise.
C3_EatGrowsByOne ==
    [][ (Tick /\ gameState' # "gameOver")
        => IF MoveHead(snake[1], nextDirection) = food
           THEN score' = score + 10 /\ Len(snake') = Len(snake) + 1
           ELSE score' = score /\ Len(snake') = Len(snake) ]_vars

\* Food has been eaten and the snake has moved on since.
C3_Witness == score = 10 /\ Len(snake) = 4 /\ ~OnSnake(food, snake) /\ timer

\* C4: a step whose new head is off the board or on a cell of the snake as
\* it was before the move (the old head and the tail cell included) ends the
\* game and leaves snake, food, score and high score as they were.
C4_CollisionEndsGame ==
    [][ (Tick /\ LET head == MoveHead(snake[1], nextDirection)
                 IN  ~InGrid(head) \/ OnSnake(head, snake))
        => (gameState' = "gameOver"
            /\ UNCHANGED << snake, food, score, highScore >>) ]_vars

\* The game ended on a move into the cell of the tail.
C4_Witness ==
    /\ gameState = "gameOver"
    /\ Len(snake) = 4
    /\ MoveHead(snake[1], direction) = snake[Len(snake)]

\* C5 as stated: the high score equals the greatest score seen in the
\* session.
C5_HighScoreIsMaxSeen == highScore = maxScore

\* C5, amended: the high score equals the greater of the value loaded from
\* storage at startup and the greatest score seen in the session (hence it
\* never decreases, resets included).
C5_HighScoreIsMaxOfLoadedAndSeen ==
    highScore = (IF loaded > maxScore THEN loaded ELSE maxScore)

\* A record was set in an earlier game of the session and a new game runs.
C5_Witness == highScore > loaded /\ score < highScore /\ gameState = "playing"

\* C6: the snake has at least one cell in every state, and every food
\* placement (after an eating step, after a reset) puts the food on the board
\* and on no cell of the snake it was generated against.
C6_FoodPlacedOffSnake ==
    /\ [](Len(snake) >= 1)
    /\ [][ (score' = score + 10 \/ (gameState = "gameOver" /\ gameState' = "idle"))
           => (InGrid(food') /\ ~OnSnake(food', snake')) ]_vars

\* Food has just been placed after the snake ate.
C6_Witness == score = 10 /\ Len(snake) = 4 /\ snake[1] # food /\ ~timer

\* C7: the phase changes only from idle to playing by a start, from playing
\* to paused and back by the pause toggle, from playing to gameOver by a
\* colliding step and from gameOver to idle by a reset.
C7_PhaseTransitions ==
    [][ gameState' # gameState
        => \/ gameState = "idle" /\ gameState' = "playing" /\ last' = "start"
           \/ gameState = "playing" /\ gameState' = "paused" /\ last' = "toggle"
           \/ gameState = "paused" /\ gameState' = "playing" /\ last' = "toggle"
           \/ gameState = "playing" /\ gameState' = "gameOver" /\ last' = "collide"
           \/ gameState = "gameOver" /\ gameState' = "idle" /\ last' = "reset" ]_vars

\* A reset has brought a game that scored back to idle.
C7_Witness == gameState = "idle" /\ last = "reset" /\ maxScore > 0

\* C8: while paused, a direction input from any source changes nothing.
C8_DirectionIgnoredWhilePaused ==
    [][ \A d \in Direction :
          (gameState = "paused" /\ DirectionInput(d))
          => UNCHANGED << nextDirection, direction, snake, food, score, gameState >> ]_vars

\* C9: while idle, every direction input (arrow key, swipe or button)
\* starts the game and makes its direction the pending direction.
ArrowInput(d) ==
    \E key \in {"ArrowUp", "ArrowDown", "ArrowLeft", "ArrowRight"} :
        KeyDirection(key) = d /\ handleKeyPress(key)

C9_DirectionStartsWithDirection ==
    [][ \A d \in Direction :
          (gameState = "idle" /\ (ArrowInput(d) \/ SwipeInput(d) \/ ButtonInput(d)))
          => (gameState' = "playing" /\ nextDirection' = d) ]_vars

\* C10: a step runs only while playing: while the game is idle or paused
\* nothing changes snake, food, score or facing direction, and no interval is
\* left set outside play.
C10_NoStepOutsidePlay ==
    /\ [](timer => gameState = "playing")
    /\ [][ (gameState = "idle" \/ gameState = "paused")
           => UNCHANGED << snake, food, score, direction >> ]_vars

\* The game was paused in mid-play and its interval is cleared.
C10_Witness == gameState = "paused" /\ ~timer /\ snake # INITIAL_SNAKE

\* C11: a reset is taken only from gameOver and yields the idle phase, score
\* 0, the initial snake, both directions UP and a food cell on the board and
\* off the initial snake; it leaves the high score and the stored high score
\* as they were.
C11_ResetRestoresInitialState ==
    [][ last' = "reset"
        => /\ gameState = "gameOver" /\ gameState' = "idle"
           /\ score' = 0
           /\ snake' = << Pos(GRID_SIZE \div 2, GRID_SIZE \div 2),
                          Pos(GRID_SIZE \div 2, GRID_SIZE \div 2 + 1),
                          Pos(GRID_SIZE \div 2, GRID_SIZE \div 2 + 2) >>
           /\ direction' = "UP" /\ nextDirection' = "UP"
           /\ InGrid(food') /\ ~OnSnake(food', snake')
           /\ UNCHANGED << highScore, storage >> ]_vars

\* A game that set a record was reset: the record is kept, in memory and in
\* storage.
C11_Witness ==
    /\ last = "reset" /\ score = 0 /\ snake = INITIAL_SNAKE
    /\ highScore = 10 /\ storage = Just(<< 1, 0 >>)

\* The cell one step from c in direction d, y growing downwards.
Stepped(c, d) ==
    [ x |-> c.x + (IF d = "RIGHT" THEN 1 ELSE IF d = "LEFT" THEN -1 ELSE 0),
      y |-> c.y + (IF d = "DOWN" THEN 1 ELSE IF d = "UP" THEN -1 ELSE 0) ]

\* C14: a step that does not collide, from snake [h0..hk] with pending
\* direction D and h' one cell from h0 in direction D, commits [h', h0..hk]
\* when h' is the food cell and [h', h0..h(k-1)] otherwise.
C14_StepResult ==
    [][ (last' = "move" \/ last' = "eat")
        => snake' = IF Stepped(snake[1], nextDirection) = food
                    THEN << Stepped(snake[1], nextDirection) >> \o snake
                    ELSE << Stepped(snake[1], nextDirection) >>
                         \o SubSeq(snake, 1, Len(snake) - 1) ]_vars

\* The first step of a restarted game ate the food placed right above the
\* head: the snake of the claim's example, grown to four cells.
C14_Witness ==
    /\ last = "eat"
    /\ snake = << Stepped(INITIAL_SNAKE[1], "UP") >> \o INITIAL_SNAKE

\* C15: every step, colliding or not, makes the pending direction it started
\* with the facing direction, and only a step or a reset changes the facing
\* direction.
C15_FacingCommittedByStep ==
    [][ /\ (last' = "move" \/ last' = "eat" \/ last' = "collide")
           => direction' = nextDirection
        /\ direction' # direction
           => (last' = "move" \/ last' = "eat" \/ last' = "collide"
               \/ last' = "reset") ]_vars

\* A colliding step committed a turn: the snake turned left into the wall.
C15_Witness ==
    gameState = "gameOver" /\ last = "collide" /\ direction = "LEFT" /\ snake[1].x = 0

\* C17: a pause and the resume that follows it are a round trip: each of the
\* two steps changes the phase only, playing to paused and paused to playing,
\* and leaves snake, food, score, high score and both directions as they
\* were; while paused no step runs in between (C10).
C17_PauseResumeRoundTrip ==
    [][ last' = "toggle"
        => /\ \/ gameState = "playing" /\ gameState' = "paused"
              \/ gameState = "paused" /\ gameState' = "playing"
           /\ UNCHANGED << snake, food, score, highScore, direction,
                           nextDirection >> ]_vars

\* A game resumed with a turn pending and the snake in mid-board.
C17_Witness ==
    /\ gameState = "playing" /\ last = "toggle" /\ timer
    /\ nextDirection # direction /\ snake # INITIAL_SNAKE

\* C18: the stored high score is written exactly in the steps whose new
\* score exceeds the high score, with the new score as its value; a stored
\* value, when there is one, reads back as the high score in every state.
C18_HighScoreWrittenThrough ==
    /\ [](storage # None => parseInt(storage[1]) = highScore)
    /\ [][ (storage' # storage \/ score' > highScore)
           => (score' > highScore /\ score' = score + 10
               /\ storage' = Just(toString(score'))) ]_vars

\* A first record was written to an empty store and reads back.
C18_Witness ==
    loaded = 0 /\ score = 10 /\ highScore = 10 /\ storage = Just(<< 1, 0 >>)

\* C12: while playing, the step keeps its period: a direction input that is
\* accepted changes the pending direction only and leaves the progress of
\* the running period as it was, so that the step is not put off however
\* often directions arrive.
C12_InputKeepsStepPeriod ==
    [][ (gameState = "playing" /\ gameState' = "playing"
         /\ nextDirection' # nextDirection)
        => (elapsed' = elapsed
            /\ UNCHANGED << snake, food, direction, score, highScore >>) ]_vars

\* C13: a failing storage operation neither crashes the game nor blocks a
\* step: the component stays mounted; a step onto the food commits the grown
\* snake, a new food and the score plus 10 whether or not the write of the
\* high score succeeds; and with nothing read at startup the high score
\* starts at 0.
C13_StorageFailureTolerated ==
    /\ [](mounted)
    /\ []((storage = None /\ maxScore = 0) => highScore = 0)
    /\ [][ (timer /\ last' \in {"move", "eat", "collide", "throw"}
            /\ Stepped(snake[1], nextDirection) = food
            /\ InGrid(food) /\ ~OnSnake(food, snake))
           => (snake' = << food >> \o snake /\ score' = score + 10
               /\ InGrid(food') /\ ~OnSnake(food', snake')
               /\ gameState' = "playing") ]_vars

\* C16: of the direction inputs that arrive while playing between two steps,
\* the last one that is not the reverse of the facing direction is the
\* direction the next step moves in; an input the filter rejects leaves the
\* pending direction in place; and a step that follows another step never
\* moves opposite to the facing direction.
C16_LastAcceptedInputSteers ==
    [][ /\ ((last' = "move" \/ last' = "eat") /\ heard # "none")
           => snake'[1] = Stepped(snake[1], heard)
        /\ (last' = "collide" /\ heard # "none")
           => (direction' = heard /\ ~(InGrid(Stepped(snake[1], heard))
                                       /\ ~OnSnake(Stepped(snake[1], heard), snake)))
        /\ (gameState = "playing" /\ last' = "reject")
           => nextDirection' = nextDirection
        /\ ((last' = "move" \/ last' = "eat" \/ last' = "collide")
            /\ snake # INITIAL_SNAKE)
           => direction' # Reverse(direction) ]_vars

\* The step TouchGesture takes in a behaviour whose gesture is a tap.
TapStep == TouchGesture /\ Abs(gesture[1]) < 30 /\ Abs(gesture[2]) < 30

\* The step TouchGesture takes in a behaviour whose gesture is a swipe,
\* and the direction C19 gives that swipe.
SwipeStep == TouchGesture /\ ~(Abs(gesture[1]) < 30 /\ Abs(gesture[2]) < 30)

SwipeOf(dx, dy) ==
    IF Abs(dx) > Abs(dy)
    THEN (IF dx > 0 THEN "RIGHT" ELSE "LEFT")
    ELSE (IF dy > 0 THEN "DOWN" ELSE "UP")

\* C19: a gesture of vector (dx, dy) is a tap iff |dx| < 30 and |dy| < 30;
\* any other is a swipe, horizontal (RIGHT if dx > 0, else LEFT) iff
\* |dx| > |dy| and vertical (DOWN if dy > 0, else UP) otherwise, ties
\* included.  A tap starts the idle game, toggles the pause of a playing or
\* paused one and resets a finished one; a swipe leaves the phase alone and,
\* while playing, makes its direction the pending one unless it is the
\* reverse of the facing direction.
C19_GestureClassification ==
    [][ /\ TapStep
           => /\ gameState' = CASE gameState = "idle" -> "playing"
                                [] gameState = "playing" -> "paused"
                                [] gameState = "paused" -> "playing"
                                [] gameState = "gameOver" -> "idle"
              /\ gameState # "gameOver"
                 => UNCHANGED << snake, food, score, direction, nextDirection >>
              /\ gameState = "gameOver"
                 => (snake' = INITIAL_SNAKE /\ score' = 0 /\ direction' = "UP"
                     /\ nextDirection' = "UP")
        /\ SwipeStep
           => /\ UNCHANGED << gameState, snake, food, score, direction >>
              /\ nextDirection' =
                    IF gameState = "playing"
                       /\ SwipeOf(gesture[1], gesture[2]) # Reverse(direction)
                    THEN SwipeOf(gesture[1], gesture[2])
                    ELSE nextDirection ]_vars

\* A swipe one pixel short of the threshold on the y axis and exactly on it
\* on the x axis turned the snake left.
C19_Witness ==
    /\ gesture = << -30, 29 >> /\ gameState = "playing"
    /\ direction = "UP" /\ nextDirection = "LEFT"

\* C20: generateFood returns after every step that eats: whenever the step
\* about to run eats the food, the grown snake leaves at least one cell of
\* the board free for the new food.
C20_FoodGenerationCompletes ==
    (timer /\ Stepped(snake[1], nextDirection) = food
     /\ InGrid(food) /\ ~OnSnake(food, snake))
    => \E px \in 0 .. GRID_SIZE - 1, py \in 0 .. GRID_SIZE - 1 :
          ~OnSnake(Pos(px, py), << food >> \o snake)

\* C21: in every state, not only right after a placement, the food lies on
\* no cell of the snake.
C21_FoodNeverOnSnake == ~OnSnake(food, snake)

\* After a reset the new food lies on a cell the finished game's snake
\* had passed over.
C21_Witness ==
    /\ gameState = "idle" /\ maxScore > 0
    /\ food = Pos(GRID_SIZE \div 2, GRID_SIZE \div 4)

\* C22: in every state the cells of the snake are pairwise distinct and
\* each has both coordinates from 0 to GRID_SIZE - 1.
C22_SnakeCellsDistinctInGrid ==
    /\ \A i \in 1 .. Len(snake) : InGrid(snake[i])
    /\ \A i, j \in 1 .. Len(snake) : i # j => snake[i] # snake[j]

\* A grown snake lies along the left wall with its head in the corner.
C22_Witness ==
    /\ Len(snake) = 4 /\ snake[1] = Pos(0, 0) /\ snake[4].x = 0
    /\ gameState = "playing"

\* C23: in every state the length of the snake is 3 plus a tenth of the
\* score, and the score is a non-negative multiple of 10.
C23_LengthTracksScore ==
    /\ score >= 0 /\ score % 10 = 0
    /\ Len(snake) = 3 + score \div 10

\* A game that scored was reset and a new game is under way at length 3.
C23_Witness ==
    /\ maxScore > 0 /\ score = 0 /\ Len(snake) = 3
    /\ gameState = "playing" /\ snake # INITIAL_SNAKE

\* C24: in every state that is idle, playing or paused the pending
\* direction is not the reverse of the facing direction, so that no step
\* runs the head into the second cell of the snake.
C24_PendingNeverReversesFacing ==
    (gameState = "idle" \/ gameState = "playing" \/ gameState = "paused")
    => nextDirection # Reverse(direction)

\* C25: in every state that is not gameOver the facing direction is the
\* direction from the second cell of the snake to its head.
C25_FacingIsLastMove ==
    gameState # "gameOver" => snake[1] = Stepped(snake[2], direction)

\* The snake has turned twice and heads down, paused with a turn pending.
C25_Witness ==
    /\ gameState = "paused" /\ direction = "DOWN" /\ nextDirection = "LEFT"
    /\ snake[1] = Stepped(snake[2], "DOWN")

\* C26: in every state the high score is at least the score, whatever
\* high score was loaded at startup.
C26_HighScoreAtLeastScore == highScore >= score

\* The score has caught up with the high score loaded at startup.
C26_Witness == loaded = 10 /\ score = 10 /\ highScore = 10 /\ gameState = "playing"

\* C27: in every state the snake is a connected path: consecutive cells
\* differ by exactly 1 in one coordinate and by 0 in the other.
C27_SnakeConnected ==
    \A i \in 1 .. Len(snake) - 1 :
        Abs(snake[i].x - snake[i + 1].x) + Abs(snake[i].y - snake[i + 1].y) = 1

\* A grown snake bent twice, at the top wall.
C27_Witness ==
    /\ Len(snake) = 4 /\ snake[1].y = 0
    /\ snake[1].x # snake[2].x /\ snake[2].y # snake[3].y /\ snake[3].x # snake[4].x
====
